---- MODULE Spec2Model ----
(***************************************************************************)
(* A state-machine model of studip-sync's two synchronisation drivers:     *)
(*   StudIPRSync (studip_rsync.py): per-file downloads ("strategy A"),     *)
(*   StudipSync  (studip_sync.py):  whole-course archives ("strategy B").  *)
(* The destination tree is a partial map from paths to files, the remote   *)
(* platform is a map from courses to raw folder listings, and one run of   *)
(* sync() is a sequence of steps whose position is pc.                     *)
(***************************************************************************)
EXTENDS Integers, Sequences, FiniteSets, TLC

\* ------------------------------------------------------------- bounds
NCourses == 2      \* courses the platform lists
MaxEntries == 2    \* file entries in one folder listing
MaxSize == 2       \* largest byte size of a file
MaxClock == 1      \* last second of the local clock and of remote chdates
MaxRuns == 2       \* runs of sync() in one behaviour

Courses == 1 .. NCourses
Times == 0 .. MaxClock
Sizes == 0 .. MaxSize

\* ------------------------------------------------------------- values
\* A raw listing value that is absent (key missing or None).
NoSize == 0 - 1
\* A raw listing value that int() rejects.
BadVal == 0 - 2

\* The content of a file that the user put at the destination.
UserContent == <<0, 0, 0, 0>>

\* The content the platform serves for entry k of folder j of course c.
ContentOf(c, j, k, rev) == <<c, j, k, rev>>

\* ------------------------------------------------------------- names
\* A name is a sequence of characters.
Disallowed == {"\\", ":", "*", "?", "\"", "<", ">", "|"}

RECURSIVE ReplaceSlash(_)
ReplaceSlash(s) ==
  IF s = <<>> THEN <<>>
  ELSE (IF Head(s) = "/" THEN <<"-", "-">> ELSE <<Head(s)>>) \o ReplaceSlash(Tail(s))

RECURSIVE RemoveDisallowed(_)
RemoveDisallowed(s) ==
  IF s = <<>> THEN <<>>
  ELSE (IF Head(s) \in Disallowed THEN <<>> ELSE <<Head(s)>>) \o RemoveDisallowed(Tail(s))

RECURSIVE LStrip(_)
LStrip(s) == IF s # <<>> /\ Head(s) = " " THEN LStrip(Tail(s)) ELSE s

RECURSIVE RStrip(_)
RStrip(s) ==
  IF s # <<>> /\ s[Len(s)] = " " THEN RStrip(SubSeq(s, 1, Len(s) - 1)) ELSE s

Strip(s) == RStrip(LStrip(s))

\* re.sub(r'[\\:*?"<>|]', '', name.replace("/", "--")).strip()
clean_name(name) == Strip(RemoveDisallowed(ReplaceSlash(name)))

\* ------------------------------------------------------------- files
\* The destination path of a file: the course directory, the folder inside
\* it (0 is the course root) and the sanitized file name.
Path(c, j, name) == <<c, j, name>>

\* file_path_name + "_" + timestr + ".old", in the same directory.
OldPath(p, t) == <<p[1], p[2], p[3], t>>

IsOldPath(p) == Len(p) = 4

MkFile(ver, size, mtime) == [ver |-> ver, size |-> size, mtime |-> mtime]

Exists(tree, p) == p \in DOMAIN tree

Put(tree, p, f) == [q \in (DOMAIN tree) \cup {p} |-> IF q = p THEN f ELSE tree[q]]

Remove(tree, p) == [q \in (DOMAIN tree) \ {p} |-> tree[q]]

\* os.rename(src, dst): dst is replaced when it is there.
Rename(tree, src, dst) == Put(Remove(tree, src), dst, tree[src])

EmptyTree == [q \in {} |-> MkFile(UserContent, 0, 0)]

\* ------------------------------------------------------------- staleness
\* is_file_new(file, file_path) against the destination tree.
is_file_new(file, tree, p) ==
  IF file.size = NoSize \/ file.size = 0 THEN FALSE        \* not file["size"]
  ELSE IF ~Exists(tree, p) THEN TRUE                       \* os.path.exists
  ELSE IF file.chdate > tree[p].mtime THEN TRUE            \* chdate > file_time
  ELSE IF file.size # tree[p].size THEN TRUE               \* not size == file_size
  ELSE FALSE

\* ------------------------------------------------------------- listings
\* A raw file entry of a listing, as the session hands it over:
\*   id            "hex", "nonhex" or "none" (key missing)
\*   hasName, name the display name (a character sequence) when present
\*   size, chdate  a number, NoSize (missing or None) or BadVal
\*   link          storage == "url" or icon == "link-extern"
\*   downloadable  is_downloadable (API listings)
\*   url           download_url: "ok", "none" (None) or "missing" (no key)
\*   rev           the revision of the content the platform serves
RawEntry(id, hasName, name, size, chdate, link, downloadable, url, rev) ==
  [id |-> id, hasName |-> hasName, name |-> name, size |-> size, chdate |-> chdate,
   link |-> link, downloadable |-> downloadable, url |-> url, rev |-> rev]

\* An ordinary downloadable file.
PlainEntry(name, size, chdate) ==
  RawEntry("hex", TRUE, name, size, chdate, FALSE, TRUE, "ok", 0)

\* What the loop body of check_and_cleanup_form_data does with one entry:
\* "skip" (continue), "error" (ParserError) or "keep".
CleanVerdict(e, api) ==
  IF e.id = "none"
    THEN (IF e.hasName THEN "skip" ELSE "error")           \* log(form_data["name"])
  ELSE IF e.id = "nonhex" THEN "error"
  ELSE IF e.size = NoSize \/ e.link
    THEN (IF e.hasName THEN "skip" ELSE "error")
  ELSE IF api /\ ~e.downloadable
    THEN (IF e.hasName THEN "skip" ELSE "error")
  ELSE IF ~e.hasName THEN "error"                          \* form_data["name"]
  ELSE IF e.size = BadVal THEN "error"                     \* int(form_data["size"])
  ELSE IF e.chdate = NoSize \/ e.chdate = BadVal THEN "error"
  ELSE IF ~api /\ e.url = "missing" THEN "error"           \* form_data["download_url"]
  ELSE "keep"

\* new_file_data; id is the entry's position in the raw listing, has_url
\* says whether the key download_url is set (only outside API mode).
Normalized(e, k, api) ==
  [name |-> clean_name(e.name), id |-> k, size |-> e.size, chdate |-> e.chdate,
   has_url |-> ~api, url |-> e.url]

RECURSIVE CleanFrom(_, _, _)
CleanFrom(raw, k, api) ==
  IF k > Len(raw) THEN [err |-> FALSE, files |-> <<>>]
  ELSE LET v == CleanVerdict(raw[k], api) IN
       IF v = "error" THEN [err |-> TRUE, files |-> <<>>]
       ELSE LET rest == CleanFrom(raw, k + 1, api) IN
            IF rest.err THEN rest
            ELSE IF v = "skip" THEN rest
            ELSE [err |-> FALSE, files |-> <<Normalized(raw[k], k, api)>> \o rest.files]

\* The file half of check_and_cleanup_form_data(form_data_files, ..., use_api).
check_and_cleanup_form_data(raw, api) == CleanFrom(raw, 1, api)

\* ------------------------------------------------------------- state
VARIABLES
  strategy,               \* "rsync" (StudIPRSync) or "archive" (StudipSync)
  use_api,                \* sync(use_api=...): API listings or browse pages
  files_destination_dir,  \* CONFIG.files_destination is set
  media_destination_dir,  \* CONFIG.media_destination is set
  ignore_courses,         \* CONFIG.ignore_courses, as course ids
  last_sync,              \* CONFIG.last_sync, persisted across runs
  clock,                  \* the local clock, in seconds
  remote,                 \* the platform: course -> title class and listings
  fs,                     \* the files-destination tree: path -> file
  pc,                     \* position of the run inside sync()
  runs,                   \* runs started so far
  sync_fully,             \* sync(sync_fully=...)
  i,                      \* index of the course loop
  status_code,            \* status_code of sync()
  outcome,                \* how the run ended: returned a value or raised
  folder,                 \* folder download_recursive is in (0: course root)
  folders,                \* subfolders of the course root still to visit
  files,                  \* normalized file entries still to visit
  staging,                \* extract_dir of the archive strategy: path -> file
  suffix,                 \* RsyncWrapper.suffix, as the second it was taken
  log,                    \* history: one record per file entry visited in this run
  errs,                   \* history: the errors the session raised in this run
  denied,                 \* history: courses whose root listing was refused in this run
  writes,                 \* history: calls of CONFIG.update_last_sync in this run
  last_sync_before,       \* history: last_sync when this run started
  changed,                \* history: the platform changed since the last run started
  prev,                   \* history: the run before this one was clean, forced and full
  mirrors,                \* history: tree-mirror passes of this run
  calls,                  \* history: gate queries, listings and archive steps of this run
  fs_before,              \* history: the files-destination tree when this run started
  workdir,                \* self.workdir: "none", "scoped" (inside the with-block) or "leaked"
  fn                      \* input and result of a single is_file_new call

vars == <<strategy, use_api, files_destination_dir, media_destination_dir,
          ignore_courses, last_sync, clock, remote, fs, pc, runs, sync_fully, i,
          status_code, outcome, folder, folders, files, staging, suffix, log,
          errs, denied, writes, last_sync_before, changed, prev, mirrors, calls,
          fs_before, workdir, fn>>

config == <<strategy, use_api, files_destination_dir, media_destination_dir,
            ignore_courses>>

NoOutcome == [kind |-> "none", val |-> 0, cls |-> ""]
Returned(v) == [kind |-> "return", val |-> v, cls |-> ""]
Raised(cls) == [kind |-> "raise", val |-> 0, cls |-> cls]

\* The raw listing of folder j of course c.
Listing(c, j) == IF j = 0 THEN remote[c].files ELSE remote[c].folders[j]

FolderIds(c) == 0 .. Len(remote[c].folders)

\* session.check_course_new_files(course_id, last_sync): the platform knows a
\* file of the course that changed after last_sync.
check_course_new_files(c, since) ==
  \E j \in FolderIds(c) : \E k \in 1 .. Len(Listing(c, j)) :
    Listing(c, j)[k].chdate > since

\* A gate that lets every course through.
course_has_new_files_Always(c, full) == TRUE

\* CourseRSync.course_has_new_files(sync_fully)
course_has_new_files(c, full) ==
  IF full THEN TRUE ELSE check_course_new_files(c, last_sync)

\* The queries of the remote incremental check that deciding the gate of
\* course c makes: `sync_fully or session.check_course_new_files(...)`.
GateQueries(c, full) == IF full THEN {} ELSE {<<"gate", c>>}

\* ------------------------------------------------------------- placement
\* A placement that clears the destination path instead of renaming what
\* is there.
RenameAside_Deleting(tree, p, t) ==
  IF Exists(tree, p) THEN Remove(tree, p) ELSE tree

\* os.rename(file_path, file_path + suffix) when something is at file_path.
RenameAside(tree, p, t) ==
  IF Exists(tree, p) THEN Rename(tree, p, OldPath(p, t)) ELSE tree

\* shutil.copyfile(target_file, file_path): the copy is written at second t.
CopyFile(tree, p, target, t) == Put(tree, p, MkFile(target.ver, target.size, t))

\* A download whose size is never compared.
SizeMismatch_Unchecked(target, file) == FALSE

\* target_file_size != file_size
SizeMismatch(target, file) == target.size # file.size

\* session.download_file / download_file_api into the work directory: the
\* bytes the platform serves for the entry, all of them ("ok") or cut short.
Downloaded(c, j, e, dl) ==
  MkFile(ContentOf(c, j, e.id, Listing(c, j)[e.id].rev),
         IF dl = "ok" THEN e.size ELSE e.size - 1, 0)

\* A hook call that sits after the staleness block instead of inside it.
HookCalls_EveryEntry(stale, placed) == IF stale => placed THEN 1 ELSE 0

\* plugins.hook("hook_file_download_successful", ...): the calls made in the
\* turn of one entry, the last statement of the `if is_file_new` block.
HookCalls(stale, placed) == IF stale /\ placed THEN 1 ELSE 0

\* The history record of one visited entry: its path and position in the raw
\* listing, whether it was stale, how the download went, whether something
\* was at the path, the second of the rename, whether it was placed, the hook
\* calls, and whether the served content was at the path when the hook ran.
Visit(p, e, stale, dl, had, t, placed, present) ==
  [path |-> p, k |-> e.id, stale |-> stale, dl |-> dl, had |-> had, t |-> t,
   placed |-> placed, hooks |-> HookCalls(stale, placed), present |-> present]

\* ------------------------------------------------------------- one run
\* A link, which check_and_cleanup_form_data drops.
LinkEntry == RawEntry("hex", TRUE, <<"c">>, 1, 0, TRUE, TRUE, "ok", 0)

\* A file whose download_url is None.
NoHandleEntry == RawEntry("hex", TRUE, <<"b">>, 1, 0, FALSE, TRUE, "none", 0)

\* The entries a root listing may hold after its first one: a second file,
\* a file whose name sanitizes to the first one's, a link, a file without a
\* download handle.
MoreEntries ==
  {PlainEntry(<<"b">>, 1, 0), PlainEntry(<<"a", ":">>, 2, 0), LinkEntry, NoHandleEntry}

\* The root listings of the first course when the behaviour starts: none, one
\* file of any size and change time, or a file followed by further entries.
InitListings ==
  {<<>>}
    \cup {<<PlainEntry(<<"a">>, s, t)>> : s \in Sizes, t \in Times}
    \cup UNION {{<<PlainEntry(<<"a">>, 1, MaxClock)>> \o more : more \in [1 .. n -> MoreEntries]} :
                  n \in 1 .. (MaxEntries - 1)}

\* The listing of the one subfolder a course root may have.
SubListing == <<PlainEntry(<<"a">>, 1, 0)>>

\* The listing of a second subfolder.
SubListing2 == <<PlainEntry(<<"b">>, 1, 0)>>

\* The file the user has put at the destination before the first run.
UserPath == Path(1, 0, <<"a">>)

UserTree == Put(EmptyTree, UserPath, MkFile(UserContent, 1, 0))

\* The other courses hold one file each.
OtherCourse == [match |-> TRUE, files |-> <<PlainEntry(<<"a">>, 1, 0)>>, folders |-> <<>>]

\* The plain platform: the first course holds one file, larger than the user's.
PlainRemote ==
  [c \in Courses |->
     IF c = 1 THEN [match |-> TRUE, files |-> <<PlainEntry(<<"a">>, 2, 0)>>, folders |-> <<>>]
     ELSE OtherCourse]

\* Platforms that differ in the first course: its listing, its subfolder,
\* whether its title matches the short-name pattern.
InitRemotes ==
  {[c \in Courses |-> IF c = 1 THEN [match |-> TRUE, files |-> l, folders |-> <<>>]
                      ELSE OtherCourse] : l \in InitListings}
    \cup {[PlainRemote EXCEPT ![1].folders = <<SubListing>>],
          [PlainRemote EXCEPT ![1].folders = <<SubListing, SubListing2>>],
          [PlainRemote EXCEPT ![1].files = <<>>, ![1].folders = <<SubListing, SubListing2>>],
          [PlainRemote EXCEPT ![1].match = FALSE]}

IgnoreLists == {{}, {NCourses}}

Modes == {<<"rsync", TRUE>>, <<"rsync", FALSE>>, <<"archive", TRUE>>}

\* Every configuration against the plain platform, and every platform
\* against the plain configuration.
InitWorld ==
  \/ /\ files_destination_dir \in BOOLEAN
     /\ media_destination_dir \in BOOLEAN
     /\ ignore_courses \in IgnoreLists
     /\ remote \in {PlainRemote, [PlainRemote EXCEPT ![1].match = FALSE]}
  \/ /\ files_destination_dir = TRUE
     /\ media_destination_dir = FALSE
     /\ ignore_courses = {}
     /\ remote \in InitRemotes

Init ==
  /\ \E m \in Modes : strategy = m[1] /\ use_api = m[2]
  /\ InitWorld
  /\ last_sync = 0
  /\ clock = 0
  /\ fs = UserTree
  /\ pc = "idle"
  /\ runs = 0
  /\ sync_fully = FALSE
  /\ i = 1
  /\ status_code = 0
  /\ outcome = NoOutcome
  /\ folder = 0
  /\ folders = <<>>
  /\ files = <<>>
  /\ staging = EmptyTree
  /\ suffix = 0
  /\ log = <<>>
  /\ errs = {}
  /\ denied = {}
  /\ writes = 0
  /\ last_sync_before = 0
  /\ changed = FALSE
  /\ prev = FALSE
  /\ mirrors = 0
  /\ calls = {}
  /\ fs_before = fs
  /\ workdir = "none"
  /\ fn = [file |-> [size |-> 0, chdate |-> 0], out |-> FALSE]

\* The run ends: sync() returns v, or an exception leaves it.
EndRun(o) ==
  /\ outcome' = o
  /\ pc' = "done"

\* StudIPRSync() / StudipSync() is constructed and sync() is called; the
\* archive strategy takes its backup suffix here (RsyncWrapper.__init__).
StartRun ==
  /\ pc \in {"idle", "done"}
  /\ workdir # "scoped"
  /\ runs < MaxRuns
  /\ runs' = runs + 1
  /\ \E full \in BOOLEAN : sync_fully' = full
  /\ \E t \in clock .. MaxClock : clock' = t /\ suffix' = t
  /\ pc' = "login"
  /\ outcome' = NoOutcome
  /\ status_code' = 0
  /\ i' = 1
  /\ folder' = 0 /\ folders' = <<>> /\ files' = <<>>
  /\ staging' = EmptyTree
  /\ log' = <<>>
  /\ mirrors' = 0
  /\ prev' = (outcome = Returned(0) /\ errs = {} /\ ~changed /\ sync_fully
              /\ files_destination_dir /\ ignore_courses = {})
  /\ errs' = {}
  /\ denied' = {}
  /\ writes' = 0
  /\ last_sync_before' = last_sync
  /\ changed' = FALSE
  /\ calls' = {}
  /\ fs_before' = fs
  /\ workdir' = "scoped"
  /\ UNCHANGED <<config, last_sync, remote, fs, fn>>

\* A fatal failure that reports success.
FatalReturn_Zero == Returned(0)

\* `return 1` after a failed login, an unknown semester or a failed course list.
FatalReturn == Returned(1)

\* session.login(...)
Login ==
  /\ pc = "login"
  /\ \E ok \in BOOLEAN :
       IF ok THEN pc' = "semester" /\ UNCHANGED <<outcome, errs>>
       ELSE EndRun(FatalReturn) /\ errs' = errs \cup {"LoginError"}
  /\ UNCHANGED <<denied, writes, last_sync_before, config, last_sync, clock, remote, fs, runs, sync_fully, i,
                 status_code, folder, folders, files, staging, suffix, log,
                 changed, prev, mirrors, fn,
                 calls, fs_before, workdir>>

\* session.set_semester / get_semester_id
Semester ==
  /\ pc = "semester"
  /\ \E found \in BOOLEAN :
       IF found THEN pc' = "courses" /\ UNCHANGED <<outcome, errs>>
       ELSE EndRun(FatalReturn) /\ errs' = errs \cup {"SemesterNotFound"}
  /\ UNCHANGED <<denied, writes, last_sync_before, config, last_sync, clock, remote, fs, runs, sync_fully, i,
                 status_code, folder, folders, files, staging, suffix, log,
                 changed, prev, mirrors, fn,
                 calls, fs_before, workdir>>

\* courses = list(session.get_courses(sync_recent)); status_code = 0
GetCourses ==
  /\ pc = "courses"
  /\ \E ok \in BOOLEAN :
       IF ok THEN pc' = "loop" /\ i' = 1 /\ status_code' = 0
                  /\ UNCHANGED <<outcome, errs>>
       ELSE EndRun(FatalReturn) /\ errs' = errs \cup {"CourseListError"} /\ UNCHANGED <<i, status_code>>
  /\ UNCHANGED <<denied, writes, last_sync_before, config, last_sync, clock, remote, fs, runs, sync_fully,
                 folder, folders, files, staging, suffix, log,
                 changed, prev, mirrors, fn,
                 calls, fs_before, workdir>>

\* ------------------------------------------------------------- strategy A
\* The head of the course loop of StudIPRSync.sync: the ignore list.
CourseHeadRsync ==
  /\ strategy = "rsync"
  /\ pc = "loop"
  /\ i <= NCourses
  /\ IF i \in ignore_courses
       THEN i' = i + 1 /\ pc' = pc
       ELSE i' = i /\ pc' = "files"
  /\ UNCHANGED <<denied, writes, last_sync_before, config, last_sync, clock, remote, fs, runs, sync_fully,
                 status_code, outcome, folder, folders, files, staging, suffix,
                 log, errs, changed, prev, mirrors, fn,
                 calls, fs_before, workdir>>

\* if self.files_destination_dir: CourseRSync(...).download()
FilesRsync ==
  /\ strategy = "rsync"
  /\ pc = "files"
  /\ IF files_destination_dir /\ course_has_new_files(i, sync_fully)
       THEN pc' = "list"
       ELSE pc' = "media"
  /\ folder' = 0 /\ folders' = <<>> /\ files' = <<>>
  /\ calls' = (IF files_destination_dir THEN calls \cup GateQueries(i, sync_fully) ELSE calls)
  /\ UNCHANGED <<denied, writes, last_sync_before, config, last_sync, clock, remote, fs, runs, sync_fully, i,
                 status_code, outcome, staging, suffix, log, errs, changed,
                 prev, mirrors, fn, fs_before, workdir>>

\* A handler that gives up the whole course when any folder is refused.
OnMissingPermission_AbortingCourse(j, status) == [pc |-> "media", status |-> status]

\* A handler that records the refusal as a failure of the run.
OnMissingPermission_Failing(j, status) ==
  [pc |-> IF j = 0 THEN "media" ELSE "entries", status |-> 2]

\* except MissingPermissionFolderError: log(...); return. The call of
\* download_recursive for folder j ends: the course's files are done when j
\* is the root, else the loop over the root's subfolders goes on; status_code
\* stays as it is.
OnMissingPermission(j, status) ==
  [pc |-> IF j = 0 THEN "media" ELSE "entries", status |-> status]

\* The head of download_recursive(folder_id, ...): the session lists the
\* folder and check_and_cleanup_form_data normalizes the listing.
ListFolder ==
  /\ pc = "list"
  /\ \E out \in {"ok", "noperm", "nofeature", "parser"} :
       LET clean == check_and_cleanup_form_data(Listing(i, folder), use_api) IN
       CASE out = "noperm" ->
              /\ pc' = OnMissingPermission(folder, status_code).pc
              /\ status_code' = OnMissingPermission(folder, status_code).status
              /\ files' = <<>>
              /\ errs' = errs \cup {"MissingPermissionFolderError"}
              /\ denied' = (IF folder = 0 THEN denied \cup {i} ELSE denied)
              /\ calls' = calls \cup {<<"list", i, folder>>, <<"refused", i, folder>>}
              /\ UNCHANGED <<folders, outcome>>
         [] out = "nofeature" ->
              \* leaves download(); except MissingFeatureError: pass
              /\ pc' = "media"
              /\ files' = <<>>
              /\ errs' = errs \cup {"MissingFeatureError"}
              /\ calls' = calls \cup {<<"list", i, folder>>}
              /\ UNCHANGED <<folders, outcome, status_code, denied>>
         [] out = "parser" \/ (out = "ok" /\ clean.err) ->
              \* a ParserError is caught nowhere in the files step
              /\ EndRun(Raised("ParserError"))
              /\ errs' = errs \cup {"ParserError"}
              /\ calls' = calls \cup {<<"list", i, folder>>}
              /\ UNCHANGED <<folders, files, status_code, denied>>
         [] out = "ok" /\ ~clean.err ->
              /\ pc' = "entries"
              /\ files' = clean.files
              /\ folders' = (IF folder = 0
                               THEN [j \in 1 .. Len(remote[i].folders) |-> j]
                               ELSE folders)
              /\ calls' = calls \cup {<<"list", i, folder>>}
              /\ UNCHANGED <<errs, outcome, status_code, denied>>
  /\ UNCHANGED <<writes, last_sync_before, config, last_sync, clock, remote,
                 fs, runs, sync_fully, i, folder, staging, suffix, log,
                 changed, prev, mirrors, fn, fs_before, workdir>>

\* One turn of `for file_data in form_data_files` in download_recursive.
ProcessFile ==
  /\ pc = "entries"
  /\ files # <<>>
  /\ LET e == Head(files)
         p == Path(i, folder, e.name)
     IN
     IF ~e.has_url THEN
       \* file_data["download_url"] on an entry without that key: KeyError,
       \* caught nowhere
       /\ EndRun(Raised("KeyError"))
       /\ UNCHANGED <<files, fs, clock, log, status_code, errs>>
     ELSE IF e.url = "none" THEN
       /\ files' = Tail(files)
       /\ UNCHANGED <<pc, outcome, fs, clock, log, status_code, errs>>
     ELSE IF ~is_file_new(e, fs, p) THEN
       /\ files' = Tail(files)
       /\ log' = Append(log, Visit(p, e, FALSE, "none", Exists(fs, p), 0,
                                   FALSE, FALSE))
       /\ UNCHANGED <<pc, outcome, fs, clock, status_code, errs>>
     ELSE
       \E dl \in {"ok", "short", "error"} :
         LET target == Downloaded(i, folder, e, dl) IN
         IF dl = "error" \/ SizeMismatch(target, e) THEN
           \* DownloadError: status_code = 2; raise e
           /\ status_code' = 2
           /\ EndRun(Raised("DownloadError"))
           /\ log' = Append(log, Visit(p, e, TRUE, dl, Exists(fs, p), 0,
                                       FALSE, FALSE))
           /\ errs' = errs \cup {"DownloadError"}
           /\ UNCHANGED <<files, fs, clock>>
         ELSE
           \E t1 \in clock .. MaxClock : \E t2 \in t1 .. MaxClock :
             LET aside == RenameAside(fs, p, t1) IN
             IF Exists(aside, p) THEN
               \* "File exists already, even after moving it away"
               /\ status_code' = 2
               /\ EndRun(Raised("DownloadError"))
               /\ fs' = aside
               /\ clock' = t1
               /\ log' = Append(log, Visit(p, e, TRUE, dl, Exists(fs, p), t1,
                                           FALSE, FALSE))
               /\ UNCHANGED <<files, errs>>
             ELSE
               LET placed == CopyFile(aside, p, target, t2) IN
               /\ fs' = placed
               /\ clock' = t2
               /\ files' = Tail(files)
               /\ log' = Append(log, Visit(p, e, TRUE, dl, Exists(fs, p), t1, TRUE,
                                           Exists(placed, p) /\ placed[p].ver = target.ver))
               /\ UNCHANGED <<pc, outcome, status_code, errs>>
  /\ UNCHANGED <<denied, writes, last_sync_before, config, last_sync, remote, runs, sync_fully, i, folder,
                 folders, staging, suffix, changed, prev, mirrors, fn,
                 calls, fs_before, workdir>>

\* `for folder_data in form_data_folders`: recurse into the next subfolder,
\* or leave download_recursive when none is left.
NextFolder ==
  /\ pc = "entries"
  /\ files = <<>>
  /\ IF folders # <<>>
       THEN /\ folder' = Head(folders)
            /\ folders' = Tail(folders)
            /\ pc' = "list"
       ELSE /\ pc' = "media"
            /\ UNCHANGED <<folder, folders>>
  /\ UNCHANGED <<denied, writes, last_sync_before, config, last_sync, clock, remote, fs, runs, sync_fully, i,
                 status_code, outcome, files, staging, suffix, log, errs,
                 changed, prev, mirrors, fn,
                 calls, fs_before, workdir>>

\* if self.media_destination_dir: session.download_media(...)
Media ==
  /\ pc = "media"
  /\ IF ~media_destination_dir THEN
       /\ pc' = "loop" /\ i' = i + 1
       /\ UNCHANGED <<status_code, outcome, errs>>
     ELSE IF strategy = "archive" /\ ~remote[i].match THEN
       \* os.path.join(self.media_destination_dir, False): TypeError
       /\ EndRun(Raised("TypeError")) /\ i' = i
       /\ UNCHANGED <<status_code, errs>>
     ELSE
       \E out \in {"ok", "nofeature", "noperm", "download", "parser"} :
         CASE out = "ok" ->
                /\ pc' = "loop" /\ i' = i + 1
                /\ UNCHANGED <<status_code, outcome, errs>>
           [] out \in {"nofeature", "noperm"} ->
                /\ pc' = "loop" /\ i' = i + 1
                /\ errs' = errs \cup {IF out = "nofeature" THEN "MissingFeatureError" ELSE "MissingPermissionFolderError"}
                /\ UNCHANGED <<status_code, outcome>>
           [] out = "download" ->
                /\ status_code' = 2
                /\ errs' = errs \cup {"DownloadError"}
                /\ IF strategy = "rsync"
                     THEN EndRun(Raised("DownloadError")) /\ i' = i
                     ELSE pc' = "loop" /\ i' = i + 1 /\ UNCHANGED outcome
           [] out = "parser" ->
                /\ errs' = errs \cup {"ParserError"}
                /\ IF status_code # 0
                     THEN EndRun(Raised("ParserError")) /\ i' = i
                          /\ UNCHANGED status_code
                     ELSE status_code' = 2 /\ pc' = "loop" /\ i' = i + 1
                          /\ UNCHANGED outcome
  /\ UNCHANGED <<denied, writes, last_sync_before, config, last_sync, clock, remote, fs, runs, sync_fully,
                 folder, folders, files, staging, suffix, log, changed, prev,
                 mirrors, fn,
                 calls, fs_before, workdir>>

\* A gate that forgets the status.
ShouldUpdateLastSync_AnyStatus(dest, status) == dest

\* if self.files_destination_dir and status_code == 0
ShouldUpdateLastSync(dest, status) == dest /\ status = 0

\* The end of StudIPRSync.sync: CONFIG.update_last_sync, return status_code.
FinishRsync ==
  /\ strategy = "rsync"
  /\ pc = "loop"
  /\ i > NCourses
  /\ IF ShouldUpdateLastSync(files_destination_dir, status_code)
       THEN \E t \in clock .. MaxClock :
              clock' = t /\ last_sync' = t /\ writes' = writes + 1
       ELSE UNCHANGED <<clock, last_sync, writes>>
  /\ EndRun(Returned(status_code))
  /\ UNCHANGED <<denied, last_sync_before, config, remote, fs, runs, sync_fully, i, status_code, folder,
                 folders, files, staging, suffix, log, errs, changed, prev,
                 mirrors, fn,
                 calls, fs_before, workdir>>

\* ------------------------------------------------------------- strategy B
\* The name of the housekeeping manifest, as a one-character name.
FileListName == <<"archive_filelist.csv">>

\* Its path at the top of an extracted tree.
FileListPath == <<FileListName>>

\* The directory an archive may wrap its content in (subfolders are 1, 2, ...).
Wrapper == 0

\* The raw entries the platform packs into a course archive: real files.
Packed(e) == e.id = "hex" /\ e.hasName /\ e.size >= 0 /\ ~e.link

\* The paths inside the archive of course c, relative to its top: a file
\* name, preceded by the directories it lies in.
ArchivePaths(c, wrapped) ==
  {(IF wrapped THEN <<Wrapper>> ELSE <<>>)
     \o (IF j = 0 THEN <<>> ELSE <<j>>) \o <<Listing(c, j)[k].name>> :
       <<j, k>> \in {x \in FolderIds(c) \X (1 .. MaxEntries) :
                       x[2] <= Len(Listing(c, x[1])) /\ Packed(Listing(c, x[1])[x[2]])}}

\* The last entry of folder j named n: extraction writes entries in order.
LastNamed(c, j, n) ==
  CHOOSE k \in 1 .. Len(Listing(c, j)) :
    /\ Packed(Listing(c, j)[k]) /\ Listing(c, j)[k].name = n
    /\ \A k2 \in (k + 1) .. Len(Listing(c, j)) :
         ~(Packed(Listing(c, j)[k2]) /\ Listing(c, j)[k2].name = n)

\* archive.extractall(destination): the tree the archive of course c unpacks to.
ArchiveTree(c, wrapped, filelist) ==
  LET paths == ArchivePaths(c, wrapped)
      dirOf(q) == IF Len(q) = (IF wrapped THEN 2 ELSE 1) THEN 0 ELSE q[Len(q) - 1]
      fileAt(q) == LET j == dirOf(q)
                       k == LastNamed(c, j, q[Len(q)])
                   IN MkFile(ContentOf(c, j, k, Listing(c, j)[k].rev),
                             Listing(c, j)[k].size, 0)
  IN [q \in paths \cup (IF filelist THEN {FileListPath} ELSE {}) |->
        IF q = FileListPath THEN MkFile(UserContent, 1, 0) ELSE fileAt(q)]

\* Extractor.remove_filelist(directory)
remove_filelist(tree) ==
  IF Exists(tree, FileListPath) THEN Remove(tree, FileListPath) ELSE tree

\* A directory of an extracted tree: a node of its own, or the prefix of a
\* path below it.
DirNode == MkFile(<<>>, 0, 0)

IsDir(f) == f.ver = <<>>

\* q lies strictly below the directory d.
Below(q, d) == Len(q) > Len(d) /\ SubSeq(q, 1, Len(d)) = d

\* The directories right below the top of an extracted tree
\* (os.listdir filtered by os.path.isdir).
TopDirs(tree) ==
  {q[1] : q \in {x \in DOMAIN tree : Len(x) >= 2 \/ IsDir(tree[x])}}

\* Extractor.remove_intermediary_dir(extracted_dir): with exactly one
\* directory at the top, its children move up one level and the directory is
\* removed; shutil.move raises when the child's name is taken at the top.
remove_intermediary_dir(tree) ==
  IF Cardinality(TopDirs(tree)) # 1 THEN [err |-> FALSE, tree |-> tree]
  ELSE LET inside == {q \in DOMAIN tree : Len(q) >= 2}
           top == {q \in DOMAIN tree : Len(q) = 1 /\ ~IsDir(tree[q])}
       IN IF \E q \in inside : <<q[2]>> \in DOMAIN tree
            THEN [err |-> TRUE, tree |-> tree]
            ELSE [err |-> FALSE,
                  tree |-> [q \in top \cup {Tail(x) : x \in inside} |->
                              IF q \in top THEN tree[q]
                              ELSE tree[CHOOSE x \in inside : Tail(x) = q]]]

\* Extractor.remove_empty_dirs(directory): os.walk visits a directory before
\* the directories in it and removes it when it holds nothing at that moment.
remove_empty_dirs(tree) ==
  [q \in {x \in DOMAIN tree :
            ~(IsDir(tree[x]) /\ ~\E y \in DOMAIN tree : Below(y, x))} |-> tree[q]]

\* The cleanup of Extractor.extract after archive.extractall(destination).
extract(tree) ==
  LET flat == remove_intermediary_dir(remove_filelist(tree)) IN
  IF flat.err THEN flat
  ELSE [err |-> FALSE, tree |-> remove_empty_dirs(flat.tree)]

\* Where a file of the extracted tree of course c lands below the
\* destination root.
DestPath(c, q) == IF Len(q) = 1 THEN Path(c, 0, q[1]) ELSE Path(c, q[Len(q) - 1], q[Len(q)])

\* extract_dir after the extracted tree of course c is added to it.
Stage(stage, c, tree) ==
  LET new == {DestPath(c, q) : q \in DOMAIN tree} IN
  [p \in (DOMAIN stage) \cup new |->
     IF p \in new THEN tree[CHOOSE q \in DOMAIN tree : DestPath(c, q) = p]
     ELSE stage[p]]

\* rsync --recursive --checksum --backup --suffix=sfx stage/ tree, at second t:
\* a staged file that is missing is added, one whose content differs replaces
\* the destination file after that is renamed to path + sfx, nothing is deleted.
Mirror(stage, tree, sfx, t) ==
  LET added == (DOMAIN stage) \ (DOMAIN tree)
      replaced == {p \in (DOMAIN stage) \cap (DOMAIN tree) : tree[p].ver # stage[p].ver}
      backups == {OldPath(p, sfx) : p \in replaced}
  IN [q \in (DOMAIN tree) \cup added \cup backups |->
        IF q \in added \cup replaced THEN MkFile(stage[q].ver, stage[q].size, t)
        ELSE IF q \in backups THEN tree[CHOOSE p \in replaced : OldPath(p, sfx) = q]
        ELSE tree[q]]

\* The head of the course loop of StudipSync.sync: save_as becomes the short
\* course name, or False, and then meets the ignore list.
CourseHeadArchive ==
  /\ strategy = "archive"
  /\ pc = "loop"
  /\ i <= NCourses
  /\ IF i \in ignore_courses
       THEN i' = i + 1 /\ pc' = pc /\ UNCHANGED outcome
     ELSE IF ~remote[i].match /\ ignore_courses # {}
       \* re.match(pattern, False): TypeError
       THEN EndRun(Raised("TypeError")) /\ i' = i
       ELSE i' = i /\ pc' = "files" /\ UNCHANGED outcome
  /\ UNCHANGED <<denied, writes, last_sync_before, config, last_sync, clock, remote, fs, runs, sync_fully,
                 status_code, folder, folders, files, staging, suffix,
                 log, errs, changed, prev, mirrors, fn,
                 calls, fs_before, workdir>>

\* if self.files_destination_dir: session.download(...); extractor.extract(...)
FilesArchive ==
  /\ strategy = "archive"
  /\ pc = "files"
  /\ IF ~(files_destination_dir
           /\ (sync_fully \/ check_course_new_files(i, last_sync)))
     THEN /\ pc' = "media"
          /\ calls' = (IF files_destination_dir
                         THEN calls \cup GateQueries(i, sync_fully) ELSE calls)
          /\ UNCHANGED <<status_code, outcome, staging, errs>>
     ELSE
       \E out \in {"ok", "badzip", "download", "nofeature"} :
       \E wrapped \in BOOLEAN : \E filelist \in BOOLEAN :
         CASE out = "nofeature" ->
                /\ pc' = "media" /\ errs' = errs \cup {"MissingFeatureError"}
                /\ calls' = calls \cup GateQueries(i, sync_fully) \cup {<<"zip", i>>}
                /\ UNCHANGED <<status_code, outcome, staging>>
           [] out \in {"download", "badzip"} ->
                \* except DownloadError / except ExtractionError
                /\ status_code' = 2
                /\ calls' = calls \cup GateQueries(i, sync_fully) \cup {<<"zip", i>>}
                              \cup (IF out = "badzip" THEN {<<"extract", i>>} ELSE {})
                /\ pc' = "media" /\ errs' = errs \cup {IF out = "download" THEN "DownloadError" ELSE "ExtractionError"}
                /\ UNCHANGED <<outcome, staging>>
           [] out = "ok" ->
                LET flat == extract(ArchiveTree(i, wrapped, filelist)) IN
                /\ calls' = calls \cup GateQueries(i, sync_fully)
                              \cup {<<"zip", i>>, <<"extract", i>>}
                /\ IF ~remote[i].match THEN
                     \* os.path.join(self.basedir, False): TypeError
                     /\ EndRun(Raised("TypeError"))
                     /\ UNCHANGED <<status_code, staging, errs>>
                   ELSE IF flat.err THEN
                     \* shutil.Error out of shutil.move
                     /\ EndRun(Raised("Error"))
                     /\ UNCHANGED <<status_code, staging, errs>>
                   ELSE
                     /\ staging' = Stage(staging, i, flat.tree)
                     /\ pc' = "media"
                     /\ UNCHANGED <<status_code, outcome, errs>>
  /\ UNCHANGED <<denied, writes, last_sync_before, config, last_sync, clock, remote, fs, runs, sync_fully, i,
                 folder, folders, files, suffix, log, changed, prev, mirrors, fn, fs_before, workdir>>

\* The end of StudipSync.sync: the mirror pass, CONFIG.update_last_sync,
\* return status_code.
FinishArchive ==
  /\ strategy = "archive"
  /\ pc = "loop"
  /\ i > NCourses
  /\ IF files_destination_dir
       THEN \E t \in clock .. MaxClock :
              /\ fs' = Mirror(staging, fs, suffix, t)
              /\ mirrors' = mirrors + 1
              /\ IF ShouldUpdateLastSync(files_destination_dir, status_code)
                   THEN \E t2 \in t .. MaxClock :
                          clock' = t2 /\ last_sync' = t2 /\ writes' = writes + 1
                   ELSE clock' = t /\ UNCHANGED <<last_sync, writes>>
       ELSE UNCHANGED <<fs, mirrors, clock, last_sync, writes>>
  /\ EndRun(Returned(status_code))
  /\ UNCHANGED <<denied, last_sync_before, config, remote, runs, sync_fully, i, status_code, folder,
                 folders, files, staging, suffix, log, errs, changed, prev, fn,
                 calls, fs_before, workdir>>

\* An exit that cleans up only when sync() returned.
cleanup_OnReturnOnly(o) == IF o.kind = "return" THEN "none" ELSE "leaked"

\* __exit__(exc_type, exc_value, traceback): self.cleanup(), which is
\* shutil.rmtree(self.workdir), whatever way sync() ended.
cleanup(o) == "none"

\* The with-block around sync() is left, by its return or by its exception.
ExitScope ==
  /\ pc = "done"
  /\ workdir = "scoped"
  /\ workdir' = cleanup(outcome)
  /\ UNCHANGED <<denied, writes, last_sync_before, config, last_sync, clock, remote, fs, pc, runs,
                 sync_fully, i, status_code, outcome, folder, folders, files, staging,
                 suffix, log, errs, changed, prev, mirrors, fn, calls, fs_before>>

\* ------------------------------------------------------------- environment
\* Between two runs the platform replaces the content of one file entry of
\* the first course.
RemoteEdit ==
  /\ pc = "done"
  /\ runs < MaxRuns
  /\ ~changed
  /\ \E k \in 1 .. Len(remote[1].files) : \E s \in Sizes : \E t \in Times :
       LET e == remote[1].files[k] IN
       /\ t >= e.chdate
       /\ remote' = [remote EXCEPT ![1].files[k] =
                       [e EXCEPT !.rev = e.rev + 1, !.size = s, !.chdate = t]]
  /\ changed' = TRUE
  /\ UNCHANGED <<denied, writes, last_sync_before, config, last_sync, clock, fs, pc, runs, sync_fully, i,
                 status_code, outcome, folder, folders, files, staging, suffix,
                 log, errs, prev, mirrors, fn,
                 calls, fs_before, workdir>>

Next ==
  \/ StartRun
  \/ Login
  \/ Semester
  \/ GetCourses
  \/ CourseHeadRsync
  \/ FilesRsync
  \/ ListFolder
  \/ ProcessFile
  \/ NextFolder
  \/ Media
  \/ FinishRsync
  \/ CourseHeadArchive
  \/ FilesArchive
  \/ FinishArchive
  \/ ExitScope
  \/ RemoteEdit

Spec == Init /\ [][Next]_vars

\* The steps of the program itself: a run that was started goes on until
\* sync() has ended and the with-block is left.
RunStep ==
  \/ Login
  \/ Semester
  \/ GetCourses
  \/ CourseHeadRsync
  \/ FilesRsync
  \/ ListFolder
  \/ ProcessFile
  \/ NextFolder
  \/ Media
  \/ FinishRsync
  \/ CourseHeadArchive
  \/ FilesArchive
  \/ FinishArchive
  \/ ExitScope

\* The worlds the runs of the fair specification start in: every mode, with
\* and without a media destination, a course with and without a subfolder,
\* with and without a title that matches the short-name pattern.
InitLive ==
  /\ Init
  /\ files_destination_dir
  /\ ignore_courses = {}
  /\ remote \in {PlainRemote,
                  [PlainRemote EXCEPT ![1].folders = <<SubListing>>],
                  [PlainRemote EXCEPT ![1].match = FALSE]}

SpecLive == InitLive /\ [][Next]_vars /\ WF_vars(RunStep)

\* ------------------------------------------------------------- is_file_new alone
\* The entries is_file_new may be handed: any size, also none, any chdate.
FnFiles == [size : {NoSize} \cup Sizes, chdate : Times]

\* The destination it looks at: nothing at the path, or a file of any size
\* and modification time.
FnTrees ==
  {EmptyTree} \cup {Put(EmptyTree, UserPath, MkFile(UserContent, s, m)) : s \in Sizes, m \in Times}

InitFn ==
  /\ strategy = "rsync" /\ use_api = FALSE
  /\ files_destination_dir = TRUE /\ media_destination_dir = FALSE
  /\ ignore_courses = {}
  /\ last_sync = 0
  /\ clock = 0
  /\ remote = PlainRemote
  /\ fs \in FnTrees
  /\ pc = "fn"
  /\ runs = 0
  /\ sync_fully = FALSE
  /\ i = 1
  /\ status_code = 0
  /\ outcome = NoOutcome
  /\ folder = 0
  /\ folders = <<>>
  /\ files = <<>>
  /\ staging = EmptyTree
  /\ suffix = 0
  /\ log = <<>>
  /\ errs = {}
  /\ denied = {}
  /\ writes = 0
  /\ last_sync_before = 0
  /\ changed = FALSE
  /\ prev = FALSE
  /\ mirrors = 0
  /\ calls = {}
  /\ fs_before = fs
  /\ workdir = "none"
  /\ \E f \in FnFiles : fn = [file |-> f, out |-> FALSE]

\* is_file_new(file, file_path) is called once.
ApplyFn ==
  /\ pc = "fn"
  /\ fn' = [fn EXCEPT !.out = is_file_new(fn.file, fs, UserPath)]
  /\ pc' = "fn_done"
  /\ UNCHANGED <<denied, writes, last_sync_before, config, last_sync, clock, remote, fs, runs, sync_fully, i,
                 status_code, outcome, folder, folders, files, staging, suffix,
                 log, errs, changed, prev, mirrors,
                 calls, fs_before, workdir>>

NextFn == ApplyFn

SpecFn == InitFn /\ [][NextFn]_vars

\* ------------------------------------------------------------- Extractor.extract alone
\* The nodes an extracted tree may hold: the manifest, a directory w with a
\* file, a directory d (holding a file and a directory e), a file named w and
\* a manifest in it, a second top directory and a top file.
ExUniverse ==
  << [path |-> <<FileListName>>, dir |-> FALSE],
     [path |-> <<(<<"w">>)>>, dir |-> TRUE],
     [path |-> <<(<<"w">>), (<<"a">>)>>, dir |-> FALSE],
     [path |-> <<(<<"w">>), (<<"d">>)>>, dir |-> TRUE],
     [path |-> <<(<<"w">>), (<<"d">>), (<<"a">>)>>, dir |-> FALSE],
     [path |-> <<(<<"w">>), (<<"d">>), (<<"e">>)>>, dir |-> TRUE],
     [path |-> <<(<<"w">>), (<<"w">>)>>, dir |-> FALSE],
     [path |-> <<(<<"w">>), FileListName>>, dir |-> FALSE],
     [path |-> <<(<<"d">>)>>, dir |-> TRUE],
     [path |-> <<(<<"a">>)>>, dir |-> FALSE] >>

\* The tree of the nodes numbered in ns; a file's content is its number.
ExTree(ns) ==
  [q \in {ExUniverse[n].path : n \in ns} |->
     LET n == CHOOSE m \in ns : ExUniverse[m].path = q IN
     IF ExUniverse[n].dir THEN DirNode ELSE MkFile(<<0, 0, 0, n>>, 1, 0)]

\* What archive.extractall can leave on disk: every node lies in a directory
\* that is there too.
ExTrees ==
  {ExTree(ns) : ns \in {x \in SUBSET (1 .. Len(ExUniverse)) :
     \A n \in x : Len(ExUniverse[n].path) > 1 =>
        \E m \in x : /\ ExUniverse[m].dir
                     /\ ExUniverse[m].path =
                          SubSeq(ExUniverse[n].path, 1, Len(ExUniverse[n].path) - 1)}}

InitEx ==
  /\ strategy = "archive" /\ use_api = TRUE
  /\ files_destination_dir = TRUE /\ media_destination_dir = FALSE
  /\ ignore_courses = {}
  /\ last_sync = 0
  /\ clock = 0
  /\ remote = PlainRemote
  /\ fs = UserTree
  /\ pc = "ex"
  /\ runs = 0
  /\ sync_fully = FALSE
  /\ i = 1
  /\ status_code = 0
  /\ outcome = NoOutcome
  /\ folder = 0
  /\ folders = <<>>
  /\ files = <<>>
  /\ staging \in ExTrees
  /\ suffix = 0
  /\ log = <<>>
  /\ errs = {}
  /\ denied = {}
  /\ writes = 0
  /\ last_sync_before = 0
  /\ changed = FALSE
  /\ prev = FALSE
  /\ mirrors = 0
  /\ calls = {}
  /\ fs_before = fs
  /\ workdir = "none"
  /\ fn = [file |-> [size |-> 0, chdate |-> 0], out |-> FALSE]

\* extractor.extract(zip_location, save_as) with cleanup, on the tree that
\* extractall has written: the cleaned tree, or the error out of shutil.move.
ApplyExtract ==
  /\ pc = "ex"
  /\ LET r == extract(staging) IN
     IF r.err THEN EndRun(Raised("Error")) /\ UNCHANGED staging
     ELSE staging' = r.tree /\ pc' = "ex_done" /\ UNCHANGED outcome
  /\ UNCHANGED <<denied, writes, last_sync_before, config, last_sync, clock, remote, fs, runs, sync_fully, i,
                 status_code, folder, folders, files, suffix,
                 log, errs, changed, prev, mirrors, fn,
                 calls, fs_before, workdir>>

NextEx == ApplyExtract

SpecEx == InitEx /\ [][NextEx]_vars

\* ------------------------------------------------------------- remote changes during a run
\* While a run is in its course loop the platform replaces a file of a
\* course the loop has already dealt with: new content and size, the change
\* time is the time of the change.
EditAfterVisit ==
  /\ pc \in {"loop", "files", "list", "entries", "media"}
  /\ \E c \in Courses : \E k \in 1 .. Len(remote[c].files) : \E s \in 1 .. MaxSize :
       LET e == remote[c].files[k] IN
       /\ c < i \/ (c = i /\ pc = "media")
       /\ e.rev = 0
       /\ clock >= e.chdate
       /\ remote' = [remote EXCEPT ![c].files[k] =
                       [e EXCEPT !.rev = e.rev + 1, !.size = s, !.chdate = clock]]
  /\ UNCHANGED <<denied, writes, last_sync_before, config, last_sync, clock, fs, pc, runs, sync_fully, i,
                 status_code, outcome, folder, folders, files, staging, suffix,
                 log, errs, changed, prev, mirrors, fn,
                 calls, fs_before, workdir>>

\* Runs against a platform that changes only while a run is in progress.
InitRace == InitLive

NextRace == StartRun \/ RunStep \/ EditAfterVisit

SpecRace == InitRace /\ [][NextRace]_vars

\* ------------------------------------------------------------- one placement, statement by statement
\* The content another process puts at the destination.
ExternalContent == <<0, 0, 0, 1>>

\* The file under placement: the first entry of the root listing of the
\* first course, found stale and downloaded in full.
InitPlace ==
  /\ strategy = "rsync" /\ use_api \in BOOLEAN
  /\ files_destination_dir = TRUE /\ media_destination_dir = FALSE
  /\ ignore_courses = {}
  /\ last_sync = 0
  /\ clock = 0
  /\ \E s \in 1 .. MaxSize :
       remote = [PlainRemote EXCEPT ![1].files = <<PlainEntry(<<"a">>, s, 0)>>]
  /\ fs \in {EmptyTree, UserTree}
  /\ pc = "place"
  /\ runs = 1
  /\ sync_fully = TRUE
  /\ i = 1
  /\ status_code = 0
  /\ outcome = NoOutcome
  /\ folder = 0
  /\ folders = <<>>
  /\ files = check_and_cleanup_form_data(remote[1].files, FALSE).files
  /\ staging = EmptyTree
  /\ suffix = 0
  /\ log = <<>>
  /\ errs = {}
  /\ denied = {}
  /\ writes = 0
  /\ last_sync_before = 0
  /\ changed = FALSE
  /\ prev = FALSE
  /\ mirrors = 0
  /\ calls = {}
  /\ fs_before = fs
  /\ workdir = "scoped"
  /\ fn = [file |-> [size |-> 0, chdate |-> 0], out |-> FALSE]

\* file_path of the entry under placement.
PlacePath == Path(i, folder, Head(files).name)

\* if os.path.exists(file_path): os.rename(file_path, new_file_path)
\* else: os.makedirs(file_path_base, exist_ok=True)
PlaceAside ==
  /\ pc = "place"
  /\ \E t \in clock .. MaxClock :
       /\ fs' = RenameAside(fs, PlacePath, t)
       /\ clock' = t
  /\ pc' = "place_check"
  /\ UNCHANGED <<denied, writes, last_sync_before, config, last_sync, remote, runs, sync_fully, i,
                 status_code, outcome, folder, folders, files, staging, suffix,
                 log, errs, changed, prev, mirrors, fn, calls, fs_before, workdir>>

\* if os.path.exists(file_path): raise DownloadError("File exists already,
\* even after moving it away: ...")
PlaceCheck ==
  /\ pc = "place_check"
  /\ IF Exists(fs, PlacePath)
       THEN status_code' = 2 /\ EndRun(Raised("DownloadError"))
       ELSE pc' = "place_copy" /\ UNCHANGED <<status_code, outcome>>
  /\ UNCHANGED <<denied, writes, last_sync_before, config, last_sync, clock, remote, fs, runs,
                 sync_fully, i, folder, folders, files, staging, suffix,
                 log, errs, changed, prev, mirrors, fn, calls, fs_before, workdir>>

\* shutil.copyfile(target_file, file_path)
PlaceCopy ==
  /\ pc = "place_copy"
  /\ \E t \in clock .. MaxClock :
       /\ fs' = CopyFile(fs, PlacePath, Downloaded(i, folder, Head(files), "ok"), t)
       /\ clock' = t
  /\ pc' = "placed"
  /\ UNCHANGED <<denied, writes, last_sync_before, config, last_sync, remote, runs, sync_fully, i,
                 status_code, outcome, folder, folders, files, staging, suffix,
                 log, errs, changed, prev, mirrors, fn, calls, fs_before, workdir>>

\* Another process creates a file at the destination path, once, between
\* any two statements of the placement.
ExternalCreate ==
  /\ pc \in {"place", "place_check", "place_copy"}
  /\ ~changed
  /\ ~Exists(fs, PlacePath)
  /\ \E s \in Sizes : \E t \in clock .. MaxClock :
       /\ fs' = Put(fs, PlacePath, MkFile(ExternalContent, s, t))
       /\ clock' = t
  /\ changed' = TRUE
  /\ UNCHANGED <<denied, writes, last_sync_before, config, last_sync, remote, pc, runs, sync_fully, i,
                 status_code, outcome, folder, folders, files, staging, suffix,
                 log, errs, prev, mirrors, fn, calls, fs_before, workdir>>

NextPlace == PlaceAside \/ PlaceCheck \/ PlaceCopy \/ ExternalCreate

SpecPlace == InitPlace /\ [][NextPlace]_vars

\* ------------------------------------------------------------- check_and_cleanup_form_data alone
\* The raw entries a listing may hold: every combination of identifier, name,
\* size, change time, link mark, downloadable mark and download handle.
RawEntries ==
  {RawEntry(id, hasName, <<"b", "/">>, size, chdate, link, downloadable, url, 0) :
     id \in {"hex", "nonhex", "none"}, hasName \in BOOLEAN,
     size \in {1, NoSize, BadVal}, chdate \in {0, BadVal},
     link \in BOOLEAN, downloadable \in BOOLEAN, url \in {"ok", "missing"}}

\* The listings handed to check_and_cleanup_form_data: one entry, or one
\* entry before or after an ordinary file.
RawListings ==
  {<<e>> : e \in RawEntries}
    \cup {<<e, PlainEntry(<<"a">>, 1, 0)>> : e \in RawEntries}
    \cup {<<PlainEntry(<<"a">>, 1, 0), e>> : e \in RawEntries}

InitClean ==
  /\ strategy = "rsync" /\ use_api \in BOOLEAN
  /\ files_destination_dir = TRUE /\ media_destination_dir = FALSE
  /\ ignore_courses = {}
  /\ last_sync = 0
  /\ clock = 0
  /\ \E l \in RawListings : remote = [PlainRemote EXCEPT ![1].files = l]
  /\ fs = UserTree
  /\ pc = "clean"
  /\ runs = 0
  /\ sync_fully = FALSE
  /\ i = 1
  /\ status_code = 0
  /\ outcome = NoOutcome
  /\ folder = 0
  /\ folders = <<>>
  /\ files = <<>>
  /\ staging = EmptyTree
  /\ suffix = 0
  /\ log = <<>>
  /\ errs = {}
  /\ denied = {}
  /\ writes = 0
  /\ last_sync_before = 0
  /\ changed = FALSE
  /\ prev = FALSE
  /\ mirrors = 0
  /\ calls = {}
  /\ fs_before = fs
  /\ workdir = "none"
  /\ fn = [file |-> [size |-> 0, chdate |-> 0], out |-> FALSE]

\* check_and_cleanup_form_data(form_data_files, ..., use_api) is called once:
\* it returns the normalized list or raises ParserError.
ApplyClean ==
  /\ pc = "clean"
  /\ LET r == check_and_cleanup_form_data(Listing(i, folder), use_api) IN
     IF r.err THEN EndRun(Raised("ParserError")) /\ UNCHANGED files
     ELSE files' = r.files /\ pc' = "clean_done" /\ UNCHANGED outcome
  /\ UNCHANGED <<denied, writes, last_sync_before, config, last_sync, clock, remote, fs, runs,
                 sync_fully, i, status_code, folder, folders, staging, suffix, log, errs,
                 changed, prev, mirrors, fn, calls, fs_before, workdir>>

NextClean == ApplyClean

SpecClean == InitClean /\ [][NextClean]_vars

\* ------------------------------------------------------------- destination paths alone
\* A file-system path is the sequence of its segments below the file-system
\* root; a segment is a name.
\* unicodedata.normalize("NFKC", name): the full-width full stop U+FF0E
\* becomes ".".
normalize(name) == [k \in 1 .. Len(name) |-> IF name[k] = "U+FF0E" THEN "." ELSE name[k]]

\* os.path.join(path, name) for a name without separator: an empty name
\* gives the directory itself.
join(path, name) == IF name = <<>> THEN path ELSE Append(path, name)

\* The file the operating system reaches by a path: "." stays in the
\* directory, ".." goes to its parent (the root is its own parent).
RECURSIVE Resolve(_)
Resolve(path) ==
  IF path = <<>> THEN <<>>
  ELSE LET up == Resolve(SubSeq(path, 1, Len(path) - 1))
           last == path[Len(path)]
       IN IF last = <<".">> THEN up
          ELSE IF last = <<".", ".">>
            THEN (IF up = <<>> THEN <<>> ELSE SubSeq(up, 1, Len(up) - 1))
          ELSE Append(up, last)

\* self.files_destination_dir
FilesDest == <<<<"d">>>>

\* What short_course_name makes of a title that matches its pattern: digits,
\* one capital letter and capitalised words.
ShortName == <<"1", " ", "V", " ", "A">>

\* short_course_name(name) of strategy A: the short form, or clean_name(name)
\* for a title outside the pattern.
short_course_name(title, match) == IF match THEN ShortName ELSE clean_name(title)

\* get_course_save_as(course), old file structure.
get_course_save_as(title, match) == short_course_name(title, match)

\* files_root_dir = os.path.join(self.files_destination_dir, course_save_as)
root_folder(title, match) == join(FilesDest, get_course_save_as(title, match))

\* The name check_and_cleanup_form_data gives a file or folder.
listed_name(name) == clean_name(normalize(name))

\* folder_path_relative of a folder below the course root: the joined
\* sanitized names of the folders on the way.
RECURSIVE folder_path_relative(_)
folder_path_relative(names) ==
  IF names = <<>> THEN <<>>
  ELSE join(folder_path_relative(SubSeq(names, 1, Len(names) - 1)),
            listed_name(names[Len(names)]))

\* file_path = os.path.join(os.path.join(self.root_folder,
\* folder_path_relative), file_data["name"])
file_path(title, match, names, name) ==
  join(root_folder(title, match) \o folder_path_relative(names), listed_name(name))

\* The raw names the platform may report.
PathNames ==
  {<<"a">>, <<".">>, <<".", ".">>, <<"?", ".", ".">>, <<"U+FF0E", "U+FF0E">>,
   <<"/">>, <<"?">>, <<".", ".", "/">>}

InitPath ==
  /\ strategy = "rsync" /\ use_api \in BOOLEAN
  /\ files_destination_dir = TRUE /\ media_destination_dir = FALSE
  /\ ignore_courses = {}
  /\ last_sync = 0
  /\ clock = 0
  /\ remote = PlainRemote
  /\ fs = UserTree
  /\ pc = "path"
  /\ runs = 0
  /\ sync_fully = FALSE
  /\ i = 1
  /\ status_code = 0
  /\ outcome = NoOutcome
  /\ folder = 0
  /\ folders = <<>>
  /\ files = <<>>
  /\ staging = EmptyTree
  /\ suffix = 0
  /\ log = <<>>
  /\ errs = {}
  /\ denied = {}
  /\ writes = 0
  /\ last_sync_before = 0
  /\ changed = FALSE
  /\ prev = FALSE
  /\ mirrors = 0
  /\ calls = {}
  /\ fs_before = fs
  /\ workdir = "none"
  /\ \E title \in PathNames : \E match \in BOOLEAN : \E name \in PathNames :
     \E names \in {<<>>} \cup {<<n>> : n \in PathNames} :
       fn = [title |-> title, match |-> match, names |-> names, name |-> name,
             path |-> <<>>]

\* download_recursive computes the path of one file of one folder of the
\* course; the path is then tested, renamed aside and written.
ApplyPath ==
  /\ pc = "path"
  /\ fn' = [fn EXCEPT !.path = file_path(fn.title, fn.match, fn.names, fn.name)]
  /\ pc' = "path_done"
  /\ UNCHANGED <<denied, writes, last_sync_before, config, last_sync, clock, remote, fs, runs,
                 sync_fully, i, status_code, outcome, folder, folders, files, staging,
                 suffix, log, errs, changed, prev, mirrors, calls, fs_before, workdir>>

NextPath == ApplyPath

SpecPath == InitPath /\ [][NextPath]_vars

\* ------------------------------------------------------------- claims

\* C4: is_file_new equals the ordered reference decision: false if the entry
\* reports no size; otherwise true if no local file exists; otherwise true if
\* chdate > local mtime; otherwise true if the sizes differ; otherwise false.
C4_Reference(file, tree, p) ==
  IF file.size = NoSize THEN FALSE
  ELSE IF ~Exists(tree, p) THEN TRUE
  ELSE IF file.chdate > tree[p].mtime THEN TRUE
  ELSE IF file.size # tree[p].size THEN TRUE
  ELSE FALSE

C4_IsFileNewMatchesReference ==
  pc = "fn_done" => fn.out = C4_Reference(fn.file, fs, UserPath)

\* The last record of the history after a step that added one.
Visited == Len(log') = Len(log) + 1

LastVisit == log'[Len(log')]

\* The content and size the platform serves for the entry of a record.
Served(r) ==
  LET e == Listing(r.path[1], r.path[2])[r.k] IN
  [ver |-> ContentOf(r.path[1], r.path[2], r.k, e.rev), size |-> e.size]

\* C1: when strategy A places a downloaded file at a path that holds content,
\* then after the placement the prior content is, unchanged, at the path with
\* the suffix "_" + capture time + ".old", and the path holds exactly the
\* downloaded content.
C1_PlacementKeepsPrior ==
  [][(Visited /\ LastVisit.placed /\ Exists(fs, LastVisit.path)) =>
        LET p == LastVisit.path
            old == OldPath(p, LastVisit.t)
        IN /\ Exists(fs', old)
           /\ fs'[old] = fs[p]
           /\ Exists(fs', p)
           /\ fs'[p].ver = Served(LastVisit).ver
           /\ fs'[p].size = Served(LastVisit).size]_vars

\* A file was placed at a path that held content.
C1_Witness == \E n \in 1 .. Len(log) : log[n].placed /\ log[n].had

\* C2: replacing the content of one destination path twice leaves two
\* distinct .old siblings with the two prior contents: every replacement adds
\* an .old sibling that was not there, holding the replaced file, and keeps
\* every .old sibling that was there.
C2_EveryReplacementAddsABackup ==
  [][\A p \in DOMAIN fs :
       (~IsOldPath(p) /\ Exists(fs', p) /\ fs'[p].ver # fs[p].ver) =>
          /\ \E t \in Times : /\ ~Exists(fs, OldPath(p, t))
                              /\ Exists(fs', OldPath(p, t))
                              /\ fs'[OldPath(p, t)] = fs[p]
          /\ \A q \in DOMAIN fs : IsOldPath(q) => Exists(fs', q) /\ fs'[q] = fs[q]]_vars

\* C3: after a forced run of strategy A that returned 0 with no session
\* error, an immediately following forced run against the unchanged platform
\* finds no entry stale: it downloads, renames and notifies nothing.
C3_ForcedRerunDownloadsNothing ==
  (strategy = "rsync" /\ prev /\ sync_fully) =>
     \A n \in 1 .. Len(log) : ~log[n].stale

\* The entries of folder j of course c that survive the cleanup and have a
\* download handle.
Surviving(c, j) ==
  {k \in 1 .. Len(Listing(c, j)) :
     /\ CleanVerdict(Listing(c, j)[k], use_api) = "keep"
     /\ Listing(c, j)[k].url # "none"}

\* C5: a strategy A run over the courses, in either listing mode, visits
\* every surviving file entry, downloads and places exactly the stale ones,
\* and, when no error occurs and a files-destination is configured, returns 0
\* and advances the persisted last-sync timestamp.
C5_RunPlacesExactlyTheStale ==
  (strategy = "rsync" /\ pc = "done" /\ errs = {} /\ files_destination_dir
     /\ sync_fully /\ ignore_courses = {} /\ ~changed) =>
      /\ \A c \in Courses : \A j \in FolderIds(c) : \A k \in Surviving(c, j) :
           \E n \in 1 .. Len(log) :
             log[n].k = k /\ log[n].path = Path(c, j, clean_name(Listing(c, j)[k].name))
      /\ \A n \in 1 .. Len(log) : log[n].placed = log[n].stale
      /\ outcome = Returned(0)
      /\ writes = 1

\* C6: the persisted last-sync timestamp is written at most once per run,
\* only when the run has left the course loop after its last course and
\* returns status 0 with a files-destination configured; on every other
\* outcome it is what it was when the run started.
C6_LastSyncOnlyAfterCleanRun ==
  /\ writes <= 1
  /\ writes = 1 => /\ pc = "done"
                   /\ outcome = Returned(0)
                   /\ status_code = 0
                   /\ i > NCourses
                   /\ files_destination_dir
  /\ writes = 0 => last_sync = last_sync_before

\* A run has written the timestamp.
C6_Witness == pc = "done" /\ writes = 1

\* C7: a DownloadError or ExtractionError raised for a course sets the status
\* and does not abort the run: when nothing else goes wrong, the run visits
\* every later course and returns the non-zero status instead of raising.
C7_DownloadErrorDoesNotAbort ==
  (pc = "done" /\ errs # {} /\ errs \subseteq {"DownloadError", "ExtractionError"}
     /\ \A c \in Courses : remote[c].match) =>
      /\ outcome.kind = "return"
      /\ outcome.val # 0
      /\ i > NCourses

\* C8 as stated: a course whose root listing is refused gives the run's
\* result a non-zero status.
C8_RefusedRootGivesNonZeroStatus ==
  (strategy = "rsync" /\ pc = "done" /\ outcome.kind = "return" /\ denied # {}) =>
     outcome.val # 0

\* C8, amended: the refusal of a course's root listing is swallowed: the
\* status, the destination tree and the timestamp stay as they are, nothing
\* is raised, and the course loop goes on with the media step of that course
\* and then the other courses.
C8_RefusedRootIsSwallowed ==
  [][(strategy = "rsync" /\ denied' \ denied # {}) =>
        /\ status_code' = status_code
        /\ fs' = fs
        /\ last_sync' = last_sync
        /\ outcome' = outcome
        /\ pc' = "media"
        /\ i' = i]_vars

\* A run returned 0 although the root of one course was refused, and placed
\* a file of another course.
C8_Witness ==
  /\ strategy = "rsync" /\ pc = "done" /\ outcome = Returned(0) /\ denied # {}
  /\ \E n \in 1 .. Len(log) : log[n].placed /\ log[n].path[1] \notin denied

\* C9: the download hook is called exactly once for each file placed, with
\* the served content at the final path, and never for an entry that was
\* filtered out, found not stale, or whose download or placement failed.
C9_HookOncePerPlacedFile ==
  \A n \in 1 .. Len(log) :
    LET r == log[n] IN
    /\ r.hooks = (IF r.placed THEN 1 ELSE 0)
    /\ r.hooks = 1 => /\ r.present
                      /\ r.stale
                      /\ r.dl = "ok"
                      /\ r.k \in Surviving(r.path[1], r.path[2])

\* One entry was placed and notified, another one was visited and not placed.
C9_Witness ==
  /\ \E n \in 1 .. Len(log) : log[n].hooks = 1
  /\ \E n \in 1 .. Len(log) : ~log[n].placed

\* C10: the mirror pass of the archive strategy runs once, after the last
\* course; every file that was at the destination is afterwards at its path
\* unchanged, or its prior content is at path + suffix; staged files that
\* were missing are added.
C10_MirrorPreservesDestination ==
  [][(strategy = "archive" /\ mirrors' > mirrors) =>
        /\ mirrors' = 1
        /\ i > NCourses
        /\ files_destination_dir
        /\ \A p \in DOMAIN staging : Exists(fs', p) /\ fs'[p].ver = staging[p].ver
        /\ \A p \in DOMAIN fs :
             \/ Exists(fs', p) /\ fs'[p] = fs[p]
             \/ /\ ~IsOldPath(p)
                /\ Exists(fs', OldPath(p, suffix))
                /\ fs'[OldPath(p, suffix)] = fs[p]]_vars

\* C11: after Extractor.extract with cleanup of a tree with a single top-level
\* wrapper directory, the wrapper's children are at the top, the wrapper
\* directory and the manifest are gone, and no empty directory remains.
C11_ExtractFlattensAndPrunes ==
  [][(pc = "ex" /\ Cardinality(TopDirs(staging)) = 1) =>
        LET w == CHOOSE n \in TopDirs(staging) : TRUE IN
        /\ pc' = "ex_done"
        /\ \A q \in DOMAIN staging :
             (Below(q, <<w>>) /\ ~IsDir(staging[q]) /\ Tail(q) # FileListPath) =>
                Exists(staging', Tail(q)) /\ staging'[Tail(q)] = staging[q]
        /\ \A q \in DOMAIN staging' : q = <<w>> => ~IsDir(staging'[q])
        /\ ~Exists(staging', FileListPath)
        /\ \A q \in DOMAIN staging' :
             IsDir(staging'[q]) => \E y \in DOMAIN staging' : Below(y, q)]_vars

\* C12: a login failure or a course-list failure makes the run return a
\* non-zero status before any course is touched: no gate query, no listing,
\* no download or extraction, no change of the destination tree, no mirror
\* pass and no update of the last-sync timestamp happens in that run.
C12_FatalFailureTouchesNothing ==
  (pc = "done" /\ errs \cap {"LoginError", "CourseListError"} # {}) =>
     /\ outcome.kind = "return"
     /\ outcome.val # 0
     /\ calls = {}
     /\ log = <<>>
     /\ fs = fs_before
     /\ staging = EmptyTree
     /\ mirrors = 0
     /\ writes = 0
     /\ last_sync = last_sync_before
     /\ i = 1

\* A second run failed at the course list, after a first run had changed the
\* destination tree.
C12_Witness ==
  /\ pc = "done" /\ "CourseListError" \in errs
  /\ runs = 2 /\ fs # UserTree

\* C13: the temporary working directory of every run made inside the
\* with-block is eventually removed, whether sync() returns 0, returns a
\* non-zero status or raises.
C13_WorkdirEventuallyRemoved == [](workdir = "scoped" => <>(workdir = "none"))

\* The with-block was left by an exception and the directory is gone.
C13_Witness == pc = "done" /\ outcome.kind = "raise" /\ workdir = "none"

\* C14: for every entry that reports a byte size, 0 included, and has no
\* file at its local path, is_file_new returns true.
C14_MissingLocalFileIsNew ==
  (pc = "fn_done" /\ fn.file.size # NoSize /\ ~Exists(fs, UserPath)) => fn.out

\* C15: in download_recursive a surviving entry whose download handle is
\* absent (API mode) or null is handled without raising: an entry with a null
\* handle is skipped, and otherwise the traversal goes on to the staleness
\* check.
C15_MissingHandleDoesNotRaise ==
  [][(pc = "entries" /\ files # <<>>) =>
        LET e == Head(files) IN
        /\ (e.has_url /\ e.url = "none") =>
              /\ files' = Tail(files) /\ pc' = "entries"
              /\ fs' = fs /\ log' = log /\ outcome' = outcome
        /\ ~e.has_url =>
              /\ ~(outcome'.kind = "raise" /\ outcome'.cls = "KeyError")
              /\ Len(log') = Len(log) + 1]_vars

\* The records of the history for folder j of course c.
VisitsIn(c, j) == {n \in 1 .. Len(log) : log[n].path[1] = c /\ log[n].path[2] = j}

\* C16: when the listing of a non-root folder is refused, that step raises
\* nothing, changes no file and leaves the siblings to be visited; and when
\* the course's traversal ends, every folder of the course was listed, every
\* surviving entry of a folder that was not refused was visited, and nothing
\* under a refused folder was visited or changed.
C16_RefusedSubfolderIsSkipped ==
  [][/\ (strategy = "rsync" /\ pc = "list" /\ folder # 0
           /\ <<"refused", i, folder>> \in calls' \ calls) =>
          /\ pc' = "entries" /\ files' = <<>> /\ folders' = folders
          /\ fs' = fs /\ log' = log
          /\ outcome' = outcome /\ status_code' = status_code
     /\ (strategy = "rsync" /\ pc = "entries" /\ pc' = "media") =>
          \A j \in FolderIds(i) :
            /\ <<"list", i, j>> \in calls
            /\ <<"refused", i, j>> \notin calls =>
                 \A k \in Surviving(i, j) : \E n \in VisitsIn(i, j) : log[n].k = k
            /\ <<"refused", i, j>> \in calls =>
                 /\ VisitsIn(i, j) = {}
                 /\ \A p \in (DOMAIN fs) \cup (DOMAIN fs_before) :
                      (p[1] = i /\ p[2] = j) =>
                         /\ Exists(fs, p) /\ Exists(fs_before, p)
                         /\ fs[p] = fs_before[p]]_vars

\* The first subfolder of a course was refused, and a file of the course root
\* and a file of the sibling listed after it were placed.
C16_Witness ==
  /\ strategy = "rsync" /\ pc = "media" /\ <<"refused", i, 1>> \in calls
  /\ \E n \in VisitsIn(i, 0) : log[n].placed
  /\ \E n \in VisitsIn(i, 2) : log[n].placed

\* C17: when a downloaded file's byte count differs from the advertised
\* size, the traversal is aborted with a DownloadError before any change for
\* that file: the destination tree stays as it is, no .old file appears, no
\* hook is called, and no later file or folder of the course is visited.
C17_SizeMismatchAbortsBeforeAnyChange ==
  [][/\ (Visited /\ LastVisit.dl = "short") =>
          /\ fs' = fs
          /\ ~LastVisit.placed /\ LastVisit.hooks = 0
          /\ outcome' = Raised("DownloadError") /\ pc' = "done"
          /\ files' = files /\ folders' = folders /\ calls' = calls
     /\ (pc = "done" /\ pc' = "done") =>
          fs' = fs /\ log' = log /\ calls' = calls]_vars

\* A download came short for a path that holds content, with a subfolder of
\* the course still to visit.
C17_Witness ==
  /\ pc = "done" /\ log # <<>>
  /\ log[Len(log)].dl = "short" /\ log[Len(log)].had
  /\ folders # <<>>

\* The class the claim gives a raw entry: "drop" (no identifier, a link, no
\* size, or in API mode not downloadable), "error" (identifier not
\* hexadecimal, malformed size or change time), "keep" (an ordinary file), or
\* "open" where the claim's classes overlap or say nothing.
C18_Class(e, api) ==
  LET drop == e.id = "none" \/ e.link \/ e.size = NoSize \/ (api /\ ~e.downloadable)
      bad == e.id = "nonhex" \/ e.size = BadVal \/ e.chdate = BadVal
  IN IF drop /\ ~bad THEN "drop"
     ELSE IF bad /\ ~drop THEN "error"
     ELSE IF ~drop /\ ~bad /\ e.hasName /\ (api \/ e.url # "missing") THEN "keep"
     ELSE "open"

\* C18: check_and_cleanup_form_data drops an entry without identifier, a
\* link, an entry without size and (API mode) a non-downloadable entry,
\* whatever its other fields, and still returns the rest; a non-hexadecimal
\* identifier or a malformed size or change time raises ParserError; every
\* returned entry is a kept one, with integer size and change time and the
\* sanitized name.
C18_CleanupClassifiesEntries ==
  [][(pc = "clean" /\ pc' # "clean"
        /\ \A k \in 1 .. Len(Listing(i, folder)) :
             C18_Class(Listing(i, folder)[k], use_api) # "open") =>
        LET raw == Listing(i, folder)
            class(k) == C18_Class(raw[k], use_api)
        IN IF \E k \in 1 .. Len(raw) : class(k) = "error"
             THEN outcome' = Raised("ParserError")
             ELSE /\ pc' = "clean_done"
                  /\ {files'[n].id : n \in 1 .. Len(files')} =
                       {k \in 1 .. Len(raw) : class(k) = "keep"}
                  /\ \A n \in 1 .. Len(files') :
                       /\ \A m \in 1 .. (n - 1) : files'[m].id < files'[n].id
                       /\ files'[n].name = clean_name(raw[files'[n].id].name)
                       /\ files'[n].size = raw[files'[n].id].size
                       /\ files'[n].size >= 0 /\ files'[n].chdate >= 0]_vars

\* The files of course c have been asked for in this run: its root folder was
\* listed, or its archive was requested.
Synced(c) == <<"list", c, 0>> \in calls \/ <<"zip", c>> \in calls

\* Nothing of course c has been asked for, unpacked or changed in this run.
Untouched(c) ==
  /\ \A q \in calls : q[1] \in {"list", "refused", "zip", "extract"} => q[2] # c
  /\ \A p \in DOMAIN staging : p[1] # c
  /\ {p \in DOMAIN fs : p[1] = c} = {p \in DOMAIN fs_before : p[1] = c}
  /\ \A p \in DOMAIN fs : p[1] = c => fs[p] = fs_before[p]

\* C19: in a forced run the incremental check is never queried and every
\* course the loop has gone past that is not ignored has been synced; in a run
\* that is not forced, a course for which check_course_new_files(course,
\* last_sync) is false is never listed, downloaded or extracted and nothing
\* under its destination changes.
C19_CourseGate ==
  (pc # "idle" /\ files_destination_dir) =>
    /\ sync_fully =>
         /\ \A q \in calls : q[1] # "gate"
         /\ \A c \in 1 .. NCourses :
              (c < i /\ c \notin ignore_courses) => Synced(c)
    /\ (~sync_fully /\ ~changed) =>
         \A c \in 1 .. NCourses :
           ~check_course_new_files(c, last_sync_before) => Untouched(c)

\* A run that is not forced has ended: course 1 had news and was synced,
\* course 2 was asked about, had none, and was skipped.
C19_Witness ==
  /\ pc = "done" /\ ~sync_fully /\ ~changed /\ files_destination_dir
  /\ <<"gate", 1>> \in calls /\ Synced(1)
  /\ <<"gate", 2>> \in calls /\ ~check_course_new_files(2, last_sync_before)
  /\ fs # fs_before

\* C20: in archive mode a course that is not ignored, passes the gate and has
\* a good archive is extracted into the staging subtree of that course and
\* the loop goes on to its media, whatever its title; a title outside the
\* short-name pattern makes neither the ignore check, the extraction nor the
\* media step end the run with an exception.
C20_AnyTitleIsStaged ==
  [][strategy = "archive" =>
       /\ outcome' # Raised("TypeError")
       /\ (pc = "files" /\ <<"extract", i>> \in calls' /\ errs' = errs
             /\ outcome' # Raised("Error")) =>
            /\ pc' = "media"
            /\ \A q \in (DOMAIN staging') \ (DOMAIN staging) : q[1] = i]_vars

\* C21: in the course loop of both strategies a MissingFeatureError (files or
\* media) and a MissingPermissionFolderError (media) leave the status as it is
\* and the loop goes on; an error leaves the loop only when the status was
\* already non-zero and the media step meets a ParserError; the first failure
\* of a run sets the status and the loop goes on.
C21_LoopErrorPolicy ==
  [][(pc \in {"files", "list", "entries", "media"} /\ errs' # errs) =>
       LET new == errs' \ errs IN
       /\ (\/ new \subseteq {"MissingFeatureError"}
           \/ (pc = "media" /\ new \subseteq {"MissingFeatureError",
                                              "MissingPermissionFolderError"})) =>
            /\ status_code' = status_code /\ outcome' = outcome
            /\ pc' \in {"loop", "media"}
       /\ outcome'.kind = "raise" =>
            /\ status_code # 0 /\ pc = "media"
            /\ outcome' = Raised("ParserError")
       /\ (status_code = 0
             /\ new \cap {"DownloadError", "ExtractionError", "ParserError"} # {}) =>
            /\ status_code' = 2 /\ outcome' = outcome
            /\ pc' \in {"loop", "media"}]_vars

\* The file that path reaches lies strictly inside the directory dir.
Inside(path, dir) ==
  LET f == Resolve(path)
      d == Resolve(dir)
  IN Len(f) > Len(d) /\ SubSeq(f, 1, Len(d)) = d

\* C22: whatever the course title, the folder names and the file name are,
\* also names that sanitize to "." or "..", the path strategy A tests,
\* renames and writes lies inside the files destination and inside the
\* course's own root folder, which lies inside the files destination.
C22_PathsStayInsideCourse ==
  pc = "path_done" =>
    /\ Inside(root_folder(fn.title, fn.match), FilesDest)
    /\ Inside(fn.path, FilesDest)
    /\ Inside(fn.path, root_folder(fn.title, fn.match))

\* C23: the persisted last-sync timestamp never advances past the change time
\* of a remote file the run has not fetched: after a run that wrote the
\* timestamp, a file of a non-ignored course that changed while the run was
\* in progress, and whose new content is not at the destination, has a change
\* time that is not before the timestamp (so that the gate of the next run
\* that is not forced still selects it).
C23_NoMissedUpdate ==
  (pc = "done" /\ outcome = Returned(0) /\ writes > 0 /\ errs = {}) =>
    \A c \in Courses \ ignore_courses : \A k \in 1 .. Len(remote[c].files) :
      LET e == remote[c].files[k] IN
      (e.rev > 0 /\ \A p \in DOMAIN fs : fs[p].ver # ContentOf(c, 0, k, e.rev)) =>
        last_sync <= e.chdate

\* C24: within one run of strategy A each destination path is placed at most
\* once, also when a listing holds two surviving entries whose sanitized
\* names are equal: no entry makes the file just placed for another entry of
\* the run be renamed aside.
C24_OnePlacementPerPath ==
  [][(strategy = "rsync" /\ Visited /\ LastVisit.placed) =>
       \A n \in 1 .. Len(log) :
         ~(log[n].placed /\ log[n].path = LastVisit.path)]_vars

\* C25: whenever another process creates content at the destination path
\* during a placement, strategy A fails with the collision DownloadError or
\* leaves that content in the tree: no statement of the placement makes
\* content disappear that it has not renamed aside; and without such a
\* process the collision error does not occur.
C25_PlacementNeverOverwrites ==
  [][/\ (PlaceAside \/ PlaceCheck \/ PlaceCopy) =>
          \A p \in DOMAIN fs : \E q \in DOMAIN fs' : fs'[q].ver = fs[p].ver
     /\ (PlaceCheck /\ outcome' = Raised("DownloadError")) => changed]_vars

====
